---- MODULE Spec2Model ----
(***************************************************************************)
(* jsTreeViz: a level-order string is parsed into a binary tree, which is  *)
(* laid out by interval bisection and drawn on a canvas.                   *)
(*                                                                         *)
(* Strings are sequences of one-character strings.  Coordinates are kept   *)
(* in half pixels (px(n) = 2n), so every division by two the code makes is *)
(* exact in the integers; a level is kept in half levels for the same      *)
(* reason (the root is drawn at level 0.5).                                *)
(***************************************************************************)
EXTENDS Integers, Sequences, FiniteSets, TLC

VARIABLES
    textarea,    \* textarea.value
    prevInput,   \* the module-level `prevInput`
    canvas,      \* the draw calls on the canvas since it was last cleared
    innerWidth,  \* window.innerWidth, in pixels
    pc,          \* where the running handler is ("idle": none is running)
    value,       \* init's parameter
    newinput,    \* treeConstructor's parsed tokens
    nodes,       \* the heap of BTreeNode objects; node 1 is the root, 0 is null
    queue,       \* treeConstructor's queue, of node references
    idx,         \* treeConstructor's idx (0-based, as in the source)
    stack        \* the call stack of recursivelyDrawNodes

vars == <<textarea, prevInput, canvas, innerWidth, pc, value, newinput,
          nodes, queue, idx, stack>>

uiVars == <<textarea, prevInput, canvas, innerWidth>>
locals == <<value, newinput, nodes, queue, idx, stack>>

-----------------------------------------------------------------------------
(* Bounds and inputs *)

MaxPieces == 3
MaxTokens == 7

\* null and undefined are kept apart from every string of characters
null == <<"#null">>
undefined == <<"#undefined">>

Pieces == { <<"1">>, <<",">>, <<" ">>, <<"\t">>, <<"\n">>, <<"n", "u", "l", "l">> }

RECURSIVE Concat(_)
Concat(ss) == IF ss = <<>> THEN <<>> ELSE Head(ss) \o Concat(Tail(ss))

\* every string made of at most MaxPieces pieces
CharInputs == { Concat(ps) : ps \in UNION { [1..k -> Pieces] : k \in 0..MaxPieces } }

Digits == <<"1", "2", "3", "4", "5", "6", "7", "8", "9">>

RECURSIVE Join(_)
Join(toks) ==
    IF Len(toks) = 1 THEN toks[1] ELSE toks[1] \o <<",">> \o Join(Tail(toks))

\* every level-order string of at most MaxTokens tokens, the i-th token being
\* the digit i or "null"
TokenInputs ==
    { Join([i \in DOMAIN f |-> IF f[i] THEN <<Digits[i]>> ELSE <<"n", "u", "l", "l">>]) :
        f \in UNION { [1..k -> BOOLEAN] : k \in 1..MaxTokens } }

\* the inputs the specification's scenarios name
Scenario7 ==
    <<"5", ",", "3", ",", "8", ",", "1", ",", "4", ",", "n", "u", "l", "l", ",", "9">>
ScenarioNull == <<"1", ",", "n", "u", "l", "l", ",", "2">>
ScenarioInputs == { Scenario7, ScenarioNull, <<"7">> }

Inputs == CharInputs \cup TokenInputs \cup ScenarioInputs

\* what the user types in the whole-application specification
UIInputs == { <<>>, <<"1">>, <<"1", ",", "2">>, ScenarioNull, <<"1", "2", ",", "3">> }

Widths == {375, 1280}

-----------------------------------------------------------------------------
(* DEFAULT_NODE_CONFIG *)

radius == 20
nodeWidthSpacing == 50
nodeHeightSpacing == 90
fontSize == 15

px(n) == 2 * n

\* a / 2, which must be exact
Half(a) == CHOOSE h \in {a \div 2} : 2 * h = a

Max(a, b) == IF a >= b THEN a ELSE b

-----------------------------------------------------------------------------
(* BTreeNode *)

BTreeNode(v) == [value |-> v, leftChild |-> 0, rightChild |-> 0]

setLeftChild(heap, n, child) == [heap EXCEPT ![n].leftChild = child]

setRightChild(heap, n, child) == [heap EXCEPT ![n].rightChild = child]

RECURSIVE getBTreeHeight(_, _)
\* getBTreeHeight with the smaller of the two heights taken (Math.min for Math.max)
getBTreeHeight_Min(heap, n) ==
    LET leftHeight == IF heap[n].leftChild # 0
                      THEN getBTreeHeight(heap, heap[n].leftChild) ELSE 0
        rightHeight == IF heap[n].rightChild # 0
                       THEN getBTreeHeight(heap, heap[n].rightChild) ELSE 0
    IN  (IF leftHeight <= rightHeight THEN leftHeight ELSE rightHeight) + 1

getBTreeHeight(heap, n) ==
    LET leftHeight == IF heap[n].leftChild # 0
                      THEN getBTreeHeight(heap, heap[n].leftChild) ELSE 0
        rightHeight == IF heap[n].rightChild # 0
                       THEN getBTreeHeight(heap, heap[n].rightChild) ELSE 0
    IN  Max(leftHeight, rightHeight) + 1

-----------------------------------------------------------------------------
(* treeUtils: parseInput, treeConstructor *)

\* String.prototype.split(",")
RECURSIVE split(_)
split(s) ==
    IF \A i \in 1..Len(s) : s[i] # ","
    THEN <<s>>
    ELSE LET i == CHOOSE j \in 1..Len(s) :
                      s[j] = "," /\ \A k \in 1..(j - 1) : s[k] # ","
         IN  <<SubSeq(s, 1, i - 1)>> \o split(SubSeq(s, i + 1, Len(s)))

isNotSpace(c) == c # " "

\* parseInput without the loop that drops the spaces
parseInput_KeepSpaces(inputVal) ==
    LET parts == split(inputVal)
    IN  [i \in 1..Len(parts) |->
            IF parts[i] = <<"n", "u", "l", "l">> THEN null ELSE parts[i]]

parseInput(inputVal) ==
    LET parsedInput == SelectSeq(inputVal, isNotSpace)
        parts == split(parsedInput)
    IN  [i \in 1..Len(parts) |->
            IF parts[i] = <<"n", "u", "l", "l">> THEN null ELSE parts[i]]

\* input[i] on a string: the character at the 0-based index i, or undefined
charAt(s, i) == IF i < Len(s) THEN <<s[i + 1]>> ELSE undefined

\* the child block with setLeftChild called for either side
childSlot_AlwaysLeft(toks, st, node, side) ==
    IF st.idx < Len(toks)
    THEN IF toks[st.idx + 1] # null
         THEN LET child == Len(st.nodes) + 1
                  heap == Append(st.nodes, BTreeNode(toks[st.idx + 1]))
              IN  [nodes |-> setLeftChild(heap, node, child),
                   queue |-> Append(st.queue, child),
                   idx |-> st.idx + 1]
         ELSE [st EXCEPT !.idx = @ + 1]
    ELSE st

\* one child slot of the loop body: `if (idx < newinput.length) { ... idx++ }`
childSlot(toks, st, node, side) ==
    IF st.idx < Len(toks)
    THEN IF toks[st.idx + 1] # null
         THEN LET child == Len(st.nodes) + 1
                  heap == Append(st.nodes, BTreeNode(toks[st.idx + 1]))
              IN  [nodes |-> IF side = "left" THEN setLeftChild(heap, node, child)
                                              ELSE setRightChild(heap, node, child),
                   queue |-> Append(st.queue, child),
                   idx |-> st.idx + 1]
         ELSE [st EXCEPT !.idx = @ + 1]
    ELSE st

\* the body of treeConstructor's while loop, on [nodes, queue, idx]
\* the loop body with queue.pop() for queue.shift()
LoopBody_Lifo(toks, st) ==
    LET node == st.queue[Len(st.queue)]
        s0 == [st EXCEPT !.queue = SubSeq(@, 1, Len(@) - 1)]
        s1 == childSlot(toks, s0, node, "left")
    IN  childSlot(toks, s1, node, "right")

LoopBody(toks, st) ==
    LET node == Head(st.queue)
        s0 == [st EXCEPT !.queue = Tail(@)]
        s1 == childSlot(toks, s0, node, "left")
    IN  childSlot(toks, s1, node, "right")

loopCondition(toks, st) == Len(st.queue) > 0 /\ st.idx < Len(toks)

\* treeConstructor's state when it enters the loop
loopStart(input) ==
    [nodes |-> <<BTreeNode(charAt(input, 0))>>, queue |-> <<1>>, idx |-> 1]

RECURSIVE whileLoop(_, _)
whileLoop(toks, st) ==
    IF loopCondition(toks, st) THEN whileLoop(toks, LoopBody(toks, st)) ELSE st

\* the heap treeConstructor leaves; the tree it returns is rooted at node 1
treeConstructor(input) == whileLoop(parseInput(input), loopStart(input)).nodes

-----------------------------------------------------------------------------
(* treeUtils: getRequiredHeightWidth, drawNode, connectEdges *)

\* in pixels
\* getRequiredHeightWidth with 2^(height-1) leaves counted
getRequiredHeightWidth_HalfWidth(heap, root) ==
    LET heightOfTree == getBTreeHeight(heap, root)
        maxPosLeafNodes == 2 ^ (heightOfTree - 1)
    IN  [canvasWidth |-> maxPosLeafNodes * nodeWidthSpacing,
         canvasHeight |-> heightOfTree * nodeHeightSpacing]

getRequiredHeightWidth(heap, root) ==
    LET heightOfTree == getBTreeHeight(heap, root)
        maxPosLeafNodes == 2 ^ heightOfTree
    IN  [canvasWidth |-> maxPosLeafNodes * nodeWidthSpacing,
         canvasHeight |-> heightOfTree * nodeHeightSpacing]

\* the canvas calls of drawNode: the filled circle, its border, the label
\* (colours, fonts and line widths are left out)
drawNode(v, x, y) ==
    << [op |-> "fillCircle", x |-> x, y |-> y, radius |-> px(radius)],
       [op |-> "strokeCircle", x |-> x, y |-> y, radius |-> px(radius)],
       [op |-> "fillText", text |-> v, x |-> x, y |-> y + px(fontSize) \div 3] >>

\* the canvas call of connectEdges: one cubic bezier curve
connectEdges(xCordinates, yCordinates) ==
    LET xStart == xCordinates.xStart
        xEnd == xCordinates.xEnd
        yStart == yCordinates.yStart
        yEnd == yCordinates.yEnd
        xHalf == Half(xStart + xEnd)
        yHalf == Half(yStart + yEnd)
    IN  << [op |-> "bezierCurve", x0 |-> xStart, y0 |-> yStart,
            cp1x |-> xHalf, cp1y |-> yHalf, cp2x |-> xEnd, cp2y |-> yHalf,
            x1 |-> xEnd, y1 |-> yEnd] >>

-----------------------------------------------------------------------------
(* recursivelyDrawNodes and drawBTree                                       *)
(* A frame of recursivelyDrawNodes holds its parameters and where it is:    *)
(* "node" (about to draw the node), "left" (about to test the left child),  *)
(* "leftEdge" (the left call has returned), "right", "rightEdge".           *)

Frame(root, level2, xStart, xEnd) ==
    [root |-> root, currentLevel2 |-> level2, xStart |-> xStart, xEnd |-> xEnd,
     at |-> "node"]

xPos(f) == Half(f.xStart + f.xEnd)

\* currentLevel * nodeHeightSpacing, the level being kept in half levels
yPos(f) == Half(f.currentLevel2 * px(nodeHeightSpacing))

\* the left child given its parent's whole interval
leftNodeHorizontalConfig_Whole(f) == [xStart |-> f.xStart, xEnd |-> f.xEnd]

leftNodeHorizontalConfig(f) == [xStart |-> f.xStart, xEnd |-> xPos(f)]

rightNodeHorizontalConfig(f) == [xStart |-> xPos(f), xEnd |-> f.xEnd]

\* the y coordinates both connectEdges calls are given
edgeYCordinates(f) ==
    [yStart |-> yPos(f) + px(radius),
     yEnd |-> Half((f.currentLevel2 + 2) * px(nodeHeightSpacing)) - px(radius)]

leftEdge(f) ==
    connectEdges([xStart |-> xPos(f), xEnd |-> Half(f.xStart + xPos(f))],
                 edgeYCordinates(f))

rightEdge(f) ==
    connectEdges([xStart |-> xPos(f), xEnd |-> Half(xPos(f) + f.xEnd)],
                 edgeYCordinates(f))

\* one step of recursivelyDrawNodes, on [stack, calls]
\* recursivelyDrawNodes with each edge drawn before the recursive call
DrawStep_EdgeFirst(heap, st) ==
    LET n == Len(st.stack)
        f == st.stack[n]
        goto(at) == [st.stack EXCEPT ![n].at = at]
        pop == SubSeq(st.stack, 1, n - 1)
    IN  CASE f.at = "node" ->
               [stack |-> goto("left"),
                calls |-> st.calls \o drawNode(heap[f.root].value, xPos(f), yPos(f))]
          [] f.at = "left" ->
               IF heap[f.root].leftChild # 0
               THEN LET c == leftNodeHorizontalConfig(f)
                    IN  [stack |-> Append(goto("right"),
                                          Frame(heap[f.root].leftChild,
                                                f.currentLevel2 + 2, c.xStart, c.xEnd)),
                         calls |-> st.calls \o leftEdge(f)]
               ELSE [st EXCEPT !.stack = goto("right")]
          [] f.at = "right" ->
               IF heap[f.root].rightChild # 0
               THEN LET c == rightNodeHorizontalConfig(f)
                    IN  [stack |-> Append(goto("return"),
                                          Frame(heap[f.root].rightChild,
                                                f.currentLevel2 + 2, c.xStart, c.xEnd)),
                         calls |-> st.calls \o rightEdge(f)]
               ELSE [st EXCEPT !.stack = pop]
          [] OTHER -> [st EXCEPT !.stack = pop]

DrawStep(heap, st) ==
    LET n == Len(st.stack)
        f == st.stack[n]
        goto(at) == [st.stack EXCEPT ![n].at = at]
        pop == SubSeq(st.stack, 1, n - 1)
    IN  CASE f.at = "node" ->
               [stack |-> goto("left"),
                calls |-> st.calls \o drawNode(heap[f.root].value, xPos(f), yPos(f))]
          [] f.at = "left" ->
               IF heap[f.root].leftChild # 0
               THEN LET c == leftNodeHorizontalConfig(f)
                    IN  [st EXCEPT !.stack =
                            Append(goto("leftEdge"),
                                   Frame(heap[f.root].leftChild,
                                         f.currentLevel2 + 2, c.xStart, c.xEnd))]
               ELSE [st EXCEPT !.stack = goto("right")]
          [] f.at = "leftEdge" ->
               [stack |-> goto("right"), calls |-> st.calls \o leftEdge(f)]
          [] f.at = "right" ->
               IF heap[f.root].rightChild # 0
               THEN LET c == rightNodeHorizontalConfig(f)
                    IN  [st EXCEPT !.stack =
                            Append(goto("rightEdge"),
                                   Frame(heap[f.root].rightChild,
                                         f.currentLevel2 + 2, c.xStart, c.xEnd))]
               ELSE [st EXCEPT !.stack = pop]
          [] f.at = "rightEdge" ->
               [stack |-> pop, calls |-> st.calls \o rightEdge(f)]

\* drawBTree up to its call of recursivelyDrawNodes(rootEl, canvasEl, 0.5, ...):
\* setting the canvas's width and height resets its bitmap
drawBTreeStart(heap, maxWidth) ==
    LET canvasWidth == getRequiredHeightWidth(heap, 1).canvasWidth
        windowCenter == Half(px(maxWidth))
        widthCenter == Half(px(canvasWidth))
        xStart == windowCenter - widthCenter
        xEnd == windowCenter + widthCenter
    IN  [stack |-> <<Frame(1, 1, xStart, xEnd)>>, calls |-> <<>>]

RECURSIVE recursivelyDrawNodes(_, _)
recursivelyDrawNodes(heap, st) ==
    IF st.stack = <<>> THEN st ELSE recursivelyDrawNodes(heap, DrawStep(heap, st))

\* the canvas after drawBTree(rootEl, canvas)
drawBTree(heap, maxWidth) ==
    recursivelyDrawNodes(heap, drawBTreeStart(heap, maxWidth)).calls

-----------------------------------------------------------------------------
(* The handlers, each as one step: the application as its user sees it *)

NoLocals ==
    /\ value = <<>> /\ newinput = <<>> /\ nodes = <<>>
    /\ queue = <<>> /\ idx = 0 /\ stack = <<>>

Init ==
    /\ textarea = <<>>
    /\ prevInput = <<>>
    /\ canvas = <<>>
    /\ innerWidth \in Widths
    /\ pc = "idle"
    /\ NoLocals

\* the user edits the text field
TypeText(s) ==
    /\ pc = "idle"
    /\ s # textarea
    /\ textarea' = s
    /\ UNCHANGED <<prevInput, canvas, innerWidth, pc, locals>>

\* init(v): prevInput = v; clearCanvas(); drawBTree(treeConstructor(v), canvas)
init(v) ==
    /\ prevInput' = v
    /\ canvas' = drawBTree(treeConstructor(v), innerWidth')

\* applyButton's click listener
ApplyClick ==
    /\ pc = "idle"
    /\ Len(textarea) # 0
    /\ innerWidth' = innerWidth
    /\ init(textarea)
    /\ UNCHANGED <<textarea, pc, locals>>

\* clearButton's click listener
ClearClick ==
    /\ pc = "idle"
    /\ textarea' = <<>>
    /\ canvas' = <<>>
    /\ UNCHANGED <<prevInput, innerWidth, pc, locals>>

\* the window is resized to width w and the resize listener runs
WindowResize(w) ==
    /\ pc = "idle"
    /\ w # innerWidth
    /\ innerWidth' = w
    /\ IF textarea = <<>>
       THEN UNCHANGED <<prevInput, canvas>>
       ELSE init(prevInput)
    /\ UNCHANGED <<textarea, pc, locals>>

Next ==
    \/ \E s \in UIInputs : TypeText(s)
    \/ ApplyClick
    \/ ClearClick
    \/ \E w \in Widths : WindowResize(w)

Spec == Init /\ [][Next]_vars

-----------------------------------------------------------------------------
(* One call of init(value), statement by statement.  The user has typed a  *)
(* text; a handler runs to its end before the next event is taken.         *)

StepInit ==
    /\ textarea \in Inputs \ {<<>>}
    /\ prevInput = <<>>
    /\ canvas = <<>>
    /\ innerWidth \in Widths
    /\ pc = "idle"
    /\ NoLocals

\* init is entered: prevInput = value; clearCanvas()
initEnter(v) ==
    /\ value' = v
    /\ prevInput' = v
    /\ canvas' = <<>>
    /\ pc' = "treeConstructor"
    /\ UNCHANGED <<textarea, newinput, nodes, queue, idx, stack>>

\* applyButton's click listener, up to its call of init
ApplyClickEnter ==
    /\ pc = "idle"
    /\ Len(textarea) # 0
    /\ innerWidth' = innerWidth
    /\ initEnter(textarea)

\* the resize listener, up to its call of init
WindowResizeEnter(w) ==
    /\ pc = "idle"
    /\ w # innerWidth
    /\ innerWidth' = w
    /\ textarea # <<>>
    /\ initEnter(prevInput)

\* treeConstructor up to its while loop
treeConstructorEnter ==
    /\ pc = "treeConstructor"
    /\ newinput' = parseInput(value)
    /\ LET st == loopStart(value)
       IN  nodes' = st.nodes /\ queue' = st.queue /\ idx' = st.idx
    /\ pc' = "while"
    /\ UNCHANGED <<uiVars, value, stack>>

\* one iteration of the while loop
whileIteration ==
    /\ pc = "while"
    /\ loopCondition(newinput, [nodes |-> nodes, queue |-> queue, idx |-> idx])
    /\ LET st == LoopBody(newinput, [nodes |-> nodes, queue |-> queue, idx |-> idx])
       IN  nodes' = st.nodes /\ queue' = st.queue /\ idx' = st.idx
    /\ UNCHANGED <<uiVars, pc, value, newinput, stack>>

\* the loop ends and treeConstructor returns the root
treeConstructorReturn ==
    /\ pc = "while"
    /\ ~loopCondition(newinput, [nodes |-> nodes, queue |-> queue, idx |-> idx])
    /\ pc' = "drawBTree"
    /\ UNCHANGED <<uiVars, locals>>

\* drawBTree up to its call of recursivelyDrawNodes
drawBTreeEnter ==
    /\ pc = "drawBTree"
    /\ LET st == drawBTreeStart(nodes, innerWidth)
       IN  stack' = st.stack /\ canvas' = st.calls
    /\ pc' = "recursivelyDrawNodes"
    /\ UNCHANGED <<textarea, prevInput, innerWidth, value, newinput, nodes, queue, idx>>

\* one step of recursivelyDrawNodes
drawStep ==
    /\ pc = "recursivelyDrawNodes"
    /\ stack # <<>>
    /\ LET st == DrawStep(nodes, [stack |-> stack, calls |-> canvas])
       IN  stack' = st.stack /\ canvas' = st.calls
    /\ UNCHANGED <<textarea, prevInput, innerWidth, pc, value, newinput, nodes, queue, idx>>

\* the outermost recursivelyDrawNodes has returned: init and the listener return
initReturn ==
    /\ pc = "recursivelyDrawNodes"
    /\ stack = <<>>
    /\ pc' = "idle"
    /\ value' = <<>> /\ newinput' = <<>> /\ nodes' = <<>>
    /\ queue' = <<>> /\ idx' = 0
    /\ UNCHANGED <<uiVars, stack>>

StepNext ==
    \/ ApplyClickEnter
    \/ \E w \in Widths : WindowResizeEnter(w)
    \/ treeConstructorEnter
    \/ whileIteration
    \/ treeConstructorReturn
    \/ drawBTreeEnter
    \/ drawStep
    \/ initReturn

StepSpec == StepInit /\ [][StepNext]_vars

-----------------------------------------------------------------------------
(* Vocabulary of the properties.  None of this is the program: it restates *)
(* the tree and its layout independently of the operators above.           *)

\* treeConstructor has returned and nothing is drawn yet
Built == pc = "drawBTree"

\* a tree exists: the loop is running or has ended
HasTree == pc \in {"while", "drawBTree", "recursivelyDrawNodes"}

\* the outermost recursivelyDrawNodes has returned
Drawn == pc = "recursivelyDrawNodes" /\ stack = <<>>

NodeIds == 1..Len(nodes)

\* the nodes reachable from n through leftChild and rightChild, counted
RECURSIVE Size(_)
Size(n) ==
    IF n = 0 THEN 0 ELSE 1 + Size(nodes[n].leftChild) + Size(nodes[n].rightChild)

NonNull(toks) == Cardinality({i \in 1..Len(toks) : toks[i] # null})

Parent(m) == CHOOSE p \in NodeIds : nodes[p].leftChild = m \/ nodes[p].rightChild = m

RECURSIVE Depth(_)
Depth(m) == IF m = 1 THEN 0 ELSE 1 + Depth(Parent(m))

RECURSIVE Below(_, _)
\* m is a, or lies below a
Below(a, m) == m = a \/ (m # 1 /\ Below(a, Parent(m)))

\* the number of nodes on the longest path down from n
PathHeight(n) ==
    LET ds == {Depth(m) - Depth(n) : m \in {m \in NodeIds : Below(n, m)}}
    IN  1 + CHOOSE d \in ds : \A e \in ds : e <= d

\* the i-th comma-separated piece (i = 1, 2, ...) of s, read off the positions
\* of its commas
Commas(s) == {j \in 1..Len(s) : s[j] = ","}
CommaAt(s, k) ==
    IF k = 0 THEN 0
    ELSE IF k > Cardinality(Commas(s)) THEN Len(s) + 1
    ELSE CHOOSE j \in Commas(s) : Cardinality({c \in Commas(s) : c < j}) = k - 1
RawToken(s, i) == SubSeq(s, CommaAt(s, i - 1) + 1, CommaAt(s, i) - 1)

Whitespace == {" ", "\t", "\n"}
Without(s, chars) == LET keep(c) == c \notin chars IN SelectSeq(s, keep)

NullWord == <<"n", "u", "l", "l">>

\* the layout in closed form: the root at the window's centre, a node at depth
\* d a (1/2^(d+1))-th of the whole span left or right of its parent
Span == px((2 ^ PathHeight(1)) * nodeWidthSpacing)
RECURSIVE X(_)
X(n) ==
    IF n = 1 THEN innerWidth
    ELSE IF nodes[Parent(n)].leftChild = n
         THEN X(Parent(n)) - Span \div (2 ^ (Depth(n) + 1))
         ELSE X(Parent(n)) + Span \div (2 ^ (Depth(n) + 1))
Y(n) == (2 * Depth(n) + 1) * nodeHeightSpacing

\* a bezier curve reduced to its two ends; any other call as it is
Ends(call) ==
    IF call.op = "bezierCurve"
    THEN [op |-> "bezierCurve", x0 |-> call.x0, y0 |-> call.y0,
          x1 |-> call.x1, y1 |-> call.y1]
    ELSE call

Edge(p, c) ==
    [op |-> "bezierCurve", x0 |-> X(p), y0 |-> Y(p) + px(radius),
     x1 |-> X(c), y1 |-> Y(c) - px(radius)]

\* the pass in pre-order: the node, its left subtree, the edge to it, its right
\* subtree, the edge to it
RECURSIVE PreOrder(_)
PreOrder(n) ==
    LET l == nodes[n].leftChild
        r == nodes[n].rightChild
    IN  << [op |-> "fillCircle", x |-> X(n), y |-> Y(n), radius |-> px(radius)],
           [op |-> "strokeCircle", x |-> X(n), y |-> Y(n), radius |-> px(radius)],
           [op |-> "fillText", text |-> nodes[n].value, x |-> X(n),
            y |-> Y(n) + px(fontSize) \div 3] >>
        \o (IF l # 0 THEN PreOrder(l) \o <<Edge(n, l)>> ELSE <<>>)
        \o (IF r # 0 THEN PreOrder(r) \o <<Edge(n, r)>> ELSE <<>>)

Circles == {i \in 1..Len(canvas) : canvas[i].op = "fillCircle"}

Abs(a) == IF a < 0 THEN -a ELSE a

-----------------------------------------------------------------------------
(* Claims about treeConstructor and parseInput, under StepSpec *)

\* C1, as stated: a built tree has exactly as many nodes as the parsed token
\* sequence has tokens that are not null.  The serialized form's own invariant
\* is granted: the first token is the root's value, not null.
C1_NodesEqualNonNullTokens ==
    (Built /\ newinput[1] # null) => Size(1) = NonNull(newinput)

\* C1, amended: a built tree has one node for the root, made whatever the first
\* token is, and one for every non-null token among the positions the fill
\* consumed (0-based 1 .. idx-1); tokens left when the queue runs empty are
\* dropped.  So it has exactly as many nodes as non-null tokens when the first
\* token is not null and every token was consumed.
C1_NodesEqualConsumedNonNullTokens ==
    Built =>
        /\ Size(1) = Len(nodes)
        /\ Size(1) = 1 + Cardinality({i \in 2..idx : newinput[i] # null})
        /\ (newinput[1] # null /\ idx = Len(newinput)) => Size(1) = NonNull(newinput)

\* C1's case: a tree of four nodes or more built from a well-formed input with a
\* null gap, every token consumed
C1_Witness ==
    /\ Built
    /\ newinput[1] # null
    /\ idx = Len(newinput)
    /\ \E i \in 2..Len(newinput) : newinput[i] = null
    /\ Size(1) >= 4

\* C2: the fill is breadth-first.  At the k-th iteration (k = 0, 1, ..., the
\* number of nodes dequeued so far) the node dequeued is the (k+1)-th created,
\* its left candidate is token 2k+1 and its right candidate token 2k+2; a
\* non-null candidate becomes a new child with that value, enqueued last, a
\* null one leaves the slot empty; nothing else changes.  "1,null,2" and
\* "5,3,8,1,4,null,9" give the trees the specification names.
C2_BreadthFirstFill ==
    /\ [][(pc = "while" /\ pc' = "while" /\ idx' > idx) =>
            LET k == Len(nodes) - Len(queue)
                node == Head(queue)
                hasL == newinput[2 * k + 2] # null
                hasR == 2 * k + 2 < Len(newinput) /\ newinput[2 * k + 3] # null
                l == Len(nodes) + 1
                r == IF hasL THEN Len(nodes) + 2 ELSE Len(nodes) + 1
            IN  /\ node = k + 1
                /\ idx = 2 * k + 1
                /\ idx' = IF 2 * k + 2 < Len(newinput) THEN idx + 2 ELSE idx + 1
                /\ Len(nodes') = Len(nodes) + (IF hasL THEN 1 ELSE 0)
                                            + (IF hasR THEN 1 ELSE 0)
                /\ nodes'[node].value = nodes[node].value
                /\ nodes'[node].leftChild = IF hasL THEN l ELSE 0
                /\ nodes'[node].rightChild = IF hasR THEN r ELSE 0
                /\ hasL => nodes'[l] = [value |-> newinput[2 * k + 2],
                                        leftChild |-> 0, rightChild |-> 0]
                /\ hasR => nodes'[r] = [value |-> newinput[2 * k + 3],
                                        leftChild |-> 0, rightChild |-> 0]
                /\ queue' = Tail(queue) \o (IF hasL THEN <<l>> ELSE <<>>)
                                        \o (IF hasR THEN <<r>> ELSE <<>>)
                /\ \A m \in NodeIds \ {node} : nodes'[m] = nodes[m]
         ]_vars
    /\ [](Built /\ value = ScenarioNull =>
            nodes = << [value |-> <<"1">>, leftChild |-> 0, rightChild |-> 2],
                       [value |-> <<"2">>, leftChild |-> 0, rightChild |-> 0] >>)
    /\ [](Built /\ value = Scenario7 =>
            nodes = << [value |-> <<"5">>, leftChild |-> 2, rightChild |-> 3],
                       [value |-> <<"3">>, leftChild |-> 4, rightChild |-> 5],
                       [value |-> <<"8">>, leftChild |-> 0, rightChild |-> 6],
                       [value |-> <<"1">>, leftChild |-> 0, rightChild |-> 0],
                       [value |-> <<"4">>, leftChild |-> 0, rightChild |-> 0],
                       [value |-> <<"9">>, leftChild |-> 0, rightChild |-> 0] >>)

\* C2's case: the third node dequeued meets a null left candidate and a non-null
\* right one ("5,3,8,1,4,null,9" has been built)
C2_Witness ==
    /\ Built
    /\ value = Scenario7
    /\ nodes[3].leftChild = 0
    /\ nodes[3].rightChild = 6

\* C5, as stated: the root's value is the first token of the parsed sequence.
C5_RootIsFirstToken ==
    HasTree => nodes[1].value = newinput[1]

\* C7, as stated: no token holds a whitespace character, and a token that
\* spells "null" once its whitespace is removed is the null sentinel.
C7_NoWhitespaceInTokens ==
    HasTree =>
        \A i \in 1..Len(newinput) :
            /\ newinput[i] # null =>
                   \A j \in 1..Len(newinput[i]) : newinput[i][j] \notin Whitespace
            /\ Without(RawToken(value, i), Whitespace) = NullWord => newinput[i] = null

\* C7, amended: parseInput removes the space characters, and no other
\* whitespace (tabs and newlines stay), before it splits on ','.  There are as
\* many tokens as comma-separated pieces of the input; each is its piece
\* without its spaces, or the null sentinel when that spells "null"; so no
\* token holds a space, and "null" surrounded by spaces is the null sentinel.
C7_SpacesRemovedOnly ==
    HasTree =>
        /\ Len(newinput) = Cardinality(Commas(value)) + 1
        /\ \A i \in 1..Len(newinput) :
               LET piece == Without(RawToken(value, i), {" "})
               IN  /\ newinput[i] = IF piece = NullWord THEN null ELSE piece
                   /\ newinput[i] # null =>
                          \A j \in 1..Len(newinput[i]) : newinput[i][j] # " "

\* C7's case: "null" with spaces around it was parsed to the null sentinel
C7_Witness ==
    /\ HasTree
    /\ \E i \in 1..Len(newinput) :
           /\ newinput[i] = null
           /\ RawToken(value, i) = <<" ">> \o NullWord \o <<" ">>

\* C8: getBTreeHeight of a node is the number of nodes on the longest path down
\* from it, hence 1 + the larger of its children's heights (an absent child
\* counting 0) and at least 1; it is 1 for a single-token input;
\* getRequiredHeightWidth gives 2^height * nodeWidthSpacing and
\* height * nodeHeightSpacing, and drawBTree's first interval spans that width.
C8_HeightAndCanvas ==
    (Built \/ pc = "recursivelyDrawNodes") =>
        LET h(c) == IF c = 0 THEN 0 ELSE PathHeight(c)
        IN  /\ \A n \in NodeIds :
                   /\ getBTreeHeight(nodes, n) = PathHeight(n)
                   /\ getBTreeHeight(nodes, n) =
                          1 + Max(h(nodes[n].leftChild), h(nodes[n].rightChild))
                   /\ getBTreeHeight(nodes, n) >= 1
            /\ Len(newinput) = 1 => getBTreeHeight(nodes, 1) = 1
            /\ getRequiredHeightWidth(nodes, 1) =
                   [canvasWidth |-> (2 ^ PathHeight(1)) * nodeWidthSpacing,
                    canvasHeight |-> PathHeight(1) * nodeHeightSpacing]
            /\ Len(newinput) = 1 =>
                   getRequiredHeightWidth(nodes, 1).canvasWidth = 2 * nodeWidthSpacing
            /\ stack # <<>> =>
                   stack[1].xEnd - stack[1].xStart =
                       px((2 ^ PathHeight(1)) * nodeWidthSpacing)

\* C8's case: a tree of height 3 or more with a node whose two subtrees differ
\* in height is being drawn
C8_Witness ==
    /\ pc = "recursivelyDrawNodes"
    /\ stack # <<>>
    /\ PathHeight(1) >= 3
    /\ \E n \in NodeIds :
           /\ nodes[n].leftChild # 0
           /\ nodes[n].rightChild # 0
           /\ PathHeight(nodes[n].leftChild) > PathHeight(nodes[n].rightChild)

-----------------------------------------------------------------------------
(* Claims about the layout and the draw pass, under StepSpec *)

\* C3: while recursivelyDrawNodes runs, every call on the stack lies on the
\* side of each of its ancestors that it descends on: a call below the left
\* child of a node has its x-position strictly left of that node's and its
\* interval inside [xStart, x] of that node's, and symmetrically on the right;
\* a child's interval is exactly that half.  So left subtree < node < right
\* subtree, whatever the tree's shape.
C3_SubtreesOnTheirSides ==
    pc = "recursivelyDrawNodes" =>
        \A i \in 1..Len(stack) : \A j \in (i + 1)..Len(stack) :
            LET p == stack[i]
                c == stack[i + 1]
                d == stack[j]
            IN  IF c.root = nodes[p.root].leftChild
                THEN /\ c.xStart = p.xStart /\ c.xEnd = xPos(p)
                     /\ xPos(d) < xPos(p)
                     /\ p.xStart <= d.xStart /\ d.xEnd <= xPos(p)
                ELSE /\ c.root = nodes[p.root].rightChild
                     /\ c.xStart = xPos(p) /\ c.xEnd = p.xEnd
                     /\ xPos(p) < xPos(d)
                     /\ xPos(p) <= d.xStart /\ d.xEnd <= p.xEnd

\* C3's case: the root has both subtrees, and the call in progress is the right
\* child of the root's left child
C3_Witness ==
    /\ pc = "recursivelyDrawNodes"
    /\ Len(stack) = 3
    /\ nodes[1].leftChild # 0
    /\ nodes[1].rightChild # 0
    /\ stack[2].root = nodes[1].leftChild
    /\ stack[3].root = nodes[stack[2].root].rightChild
    /\ stack[3].at = "left"

\* C9: two different nodes drawn on the same level are at least
\* 2 * nodeWidthSpacing apart, which is more than a circle's diameter, and every
\* node is drawn strictly inside drawBTree's first interval.
C9_LevelSpacing ==
    pc = "recursivelyDrawNodes" =>
        /\ \A i \in Circles : \A j \in Circles :
               (i # j /\ canvas[i].y = canvas[j].y) =>
                   /\ Abs(canvas[i].x - canvas[j].x) >= px(2 * nodeWidthSpacing)
                   /\ Abs(canvas[i].x - canvas[j].x) > 2 * canvas[i].radius
        /\ stack # <<>> =>
               \A i \in Circles :
                   stack[1].xStart < canvas[i].x /\ canvas[i].x < stack[1].xEnd

\* C9's case: two nodes of the deepest level of a tree of height 3, exactly
\* 2 * nodeWidthSpacing apart
C9_Witness ==
    /\ pc = "recursivelyDrawNodes"
    /\ stack # <<>>
    /\ \E i \in Circles : \E j \in Circles :
           /\ i # j
           /\ canvas[i].y = canvas[j].y
           /\ canvas[i].y = 5 * nodeHeightSpacing
           /\ Abs(canvas[i].x - canvas[j].x) = px(2 * nodeWidthSpacing)

\* C10: a finished pass has issued, in this order, for each node: its circle
\* (and border and label), the pass of its left subtree, the edge to its left
\* child, the pass of its right subtree, the edge to its right child; a node at
\* depth d is at y = (d + 0.5) * nodeHeightSpacing and an edge runs from the
\* parent's (x, y + radius) to the child's (x, y - radius).  Every node is
\* drawn once and there is one edge for each present child.
C10_PreOrderPass ==
    Drawn =>
        /\ [i \in 1..Len(canvas) |-> Ends(canvas[i])] = PreOrder(1)
        /\ Cardinality(Circles) = Len(nodes)
        /\ Cardinality({i \in 1..Len(canvas) : canvas[i].op = "bezierCurve"})
               = Len(nodes) - 1

\* C10's case: the pass over the tree of "5,3,8,1,4,null,9" has finished
C10_Witness ==
    /\ Drawn
    /\ value = Scenario7
    /\ Len(canvas) = 6 * 3 + 5

-----------------------------------------------------------------------------
(* Claims about the handlers, under Spec.  There an apply has succeeded    *)
(* exactly when prevInput is not empty: only init assigns prevInput, the   *)
(* apply listener passes it a non-empty text, the resize listener passes   *)
(* it prevInput itself.                                                    *)

\* C4, as stated: a resize does nothing while no apply has succeeded, and after
\* one it redraws the tree of the last-applied input.
C4_ResizeRedrawsLastApplied ==
    [][(\E w \in Widths : WindowResize(w)) =>
          IF prevInput = <<>>
          THEN canvas' = canvas
          ELSE canvas' = drawBTree(treeConstructor(prevInput), innerWidth')
      ]_vars

\* C6, as stated: once a clear has emptied the surface of an applied tree, the
\* surface stays empty until the next successful apply.
C6_ClearedUntilApply ==
    [][(prevInput # <<>> /\ canvas = <<>> /\ ~ApplyClick) => canvas' = <<>>]_vars

====
